---- MODULE Spec2Model ----
(***************************************************************************)
(* A model of src/ent.hpp: class Ent::Ent, the byte buffer it holds, its   *)
(* five mode flags, its seven result fields, and calculate() with the five *)
(* statistics it runs (entropy, chi-square, mean, Monte Carlo pi, serial   *)
(* correlation) and the print functions it calls.                          *)
(*                                                                         *)
(* Numbers.  A C++ double is modelled by the exact real value it           *)
(* approximates, or by NaN:                                                *)
(*   [kind |-> "nan"]                          IEEE NaN                    *)
(*   [kind |-> "inf", sign]                    +infinity or -infinity      *)
(*   [kind |-> "rat", num, den]                num/den in lowest terms     *)
(*   [kind |-> "shannon", probs]               -Sum p*log2(p) over a bag   *)
(*   [kind |-> "compression", entropy, max]    100*(1 - entropy/max)       *)
(*   [kind |-> "upper_tail", z2]               1 - Phi(sqrt(z2))           *)
(*   [kind |-> "quot_sqrt", num, dx, dy]       num / sqrt(dx*dy)           *)
(* Rounding of the last bit is not modelled.  unsigned long long values    *)
(* are little-endian sequences of base-2^8 limbs, truncated to 8 limbs     *)
(* where the code's arithmetic is modulo 2^64.                             *)
(***************************************************************************)
EXTENDS Integers, Sequences, FiniteSets

\* ------------------------------------------------------------ bounds
\* Longest byte buffer the constructor loads in Init.
MaxLen == 13
\* Most 6-byte groups, read by calculate_pi past the end of a short buffer
\* before the process faults, that the trace of the call keeps.
MaxOobGroups == 1

\* ------------------------------------------------- program constants
BYTE_VAL_COUNT == 256

\* ------------------------------------------------ unsigned long long
LimbBase == 2^8
U64Limbs == 64 \div 8

RECURSIVE BigNorm(_)
BigNorm(s) ==
    IF s = <<>> THEN <<>>
    ELSE IF s[Len(s)] = 0 THEN BigNorm(SubSeq(s, 1, Len(s) - 1))
    ELSE s

RECURSIVE BigFromNat(_)
BigFromNat(n) ==
    IF n = 0 THEN <<>>
    ELSE <<n % LimbBase>> \o BigFromNat(n \div LimbBase)

RECURSIVE BigToNat(_)
BigToNat(s) ==
    IF s = <<>> THEN 0 ELSE s[1] + LimbBase * BigToNat(Tail(s))

Limb(s, i) == IF i <= Len(s) THEN s[i] ELSE 0

RECURSIVE BigAddFrom(_, _, _, _)
BigAddFrom(a, b, i, carry) ==
    IF i > Len(a) /\ i > Len(b)
    THEN (IF carry = 0 THEN <<>> ELSE <<carry>>)
    ELSE LET t == Limb(a, i) + Limb(b, i) + carry
         IN  <<t % LimbBase>> \o BigAddFrom(a, b, i + 1, t \div LimbBase)

BigAdd(a, b) == BigNorm(BigAddFrom(a, b, 1, 0))

\* a * k for a limb-sized or slightly larger k (k < 2^22)
RECURSIVE BigScaleFrom(_, _, _, _)
BigScaleFrom(a, k, i, carry) ==
    IF i > Len(a) THEN BigFromNat(carry)
    ELSE LET t == a[i] * k + carry
         IN  <<t % LimbBase>> \o BigScaleFrom(a, k, i + 1, t \div LimbBase)

BigShift(a, n) == IF a = <<>> THEN <<>> ELSE [j \in 1..n |-> 0] \o a

RECURSIVE BigMulFrom(_, _, _)
BigMulFrom(a, b, i) ==
    IF i > Len(b) THEN <<>>
    ELSE BigAdd(BigShift(BigScaleFrom(a, b[i], 1, 0), i - 1),
                BigMulFrom(a, b, i + 1))

BigMul(a, b) == BigNorm(BigMulFrom(a, b, 1))

RECURSIVE BigLessFrom(_, _, _)
BigLessFrom(a, b, i) ==
    IF i = 0 THEN FALSE
    ELSE IF a[i] # b[i] THEN a[i] < b[i]
    ELSE BigLessFrom(a, b, i - 1)

\* a < b for normalised a, b
BigLess(a, b) ==
    IF Len(a) # Len(b) THEN Len(a) < Len(b) ELSE BigLessFrom(a, b, Len(a))

\* the value an unsigned long long holds: the low 64 bits
ToU64(s) ==
    BigNorm(SubSeq(s, 1, IF Len(s) < U64Limbs THEN Len(s) ELSE U64Limbs))

\* TRUE when the exact value does not fit 64 bits, so the C++ result wrapped
Wraps(s) == Len(BigNorm(s)) > U64Limbs

\* a - b for a >= b
RECURSIVE BigSubFrom(_, _, _, _)
BigSubFrom(a, b, i, borrow) ==
    IF i > Len(a) THEN <<>>
    ELSE LET t == a[i] - Limb(b, i) - borrow
         IN  <<IF t < 0 THEN t + LimbBase ELSE t>>
             \o BigSubFrom(a, b, i + 1, IF t < 0 THEN 1 ELSE 0)

BigSub(a, b) == BigNorm(BigSubFrom(a, b, 1, 0))

\* the one element of a one-element set: binds a value computed once
Only(S) == CHOOSE x \in S : TRUE

\* the number of binary digits of a normalised s
BitLen(s) ==
    IF s = <<>> THEN 0
    ELSE 8 * (Len(s) - 1)
         + (CHOOSE n \in 1..8 : 2^(n - 1) <= s[Len(s)] /\ s[Len(s)] < 2^n)

\* binary digit k of s, the lowest being digit 0
BitOf(s, k) == (Limb(s, (k \div 8) + 1) \div 2^(k % 8)) % 2

\* 2^k
Pow2(k) == BigShift(<<2^(k % 8)>>, k \div 8)

\* |a - b|
BigAbsDiff(a, b) == IF BigLess(a, b) THEN BigSub(b, a) ELSE BigSub(a, b)

\* One limb of the long division by T < 2^30: k binary steps, the highest
\* digit first; q collects the quotient digits.
RECURSIVE DivBits(_, _, _, _, _)
DivBits(rem, limb, T, k, q) ==
    IF k = 0 THEN [q |-> q, rem |-> rem]
    ELSE LET r == 2 * rem + ((limb \div 2^(k - 1)) % 2)
         IN  IF r >= T THEN DivBits(r - T, limb, T, k - 1, 2 * q + 1)
             ELSE DivBits(r, limb, T, k - 1, 2 * q)

\* quotient limbs i..Len(a) of a divided by T, and the remainder
RECURSIVE BigDivFrom(_, _, _)
BigDivFrom(a, i, T) ==
    IF i > Len(a) THEN [q |-> <<>>, rem |-> 0]
    ELSE Only({Only({[q |-> <<st.q>> \o hi.q, rem |-> st.rem] :
                        st \in {DivBits(hi.rem, a[i], T, 8, 0)}}) :
                  hi \in {BigDivFrom(a, i + 1, T)}})

\* floor(a / T) and a mod T, for 0 < T < 2^30
BigDiv(a, T) ==
    Only({[q |-> BigNorm(r.q), rem |-> r.rem] : r \in {BigDivFrom(a, 1, T)}})

\* static_cast<unsigned long long>(1) << 48
RadiusSquared == BigShift(<<1>>, 48 \div 8)

\* ------------------------------------------------------------ double
NaN == [kind |-> "nan"]

RECURSIVE GCD(_, _)
GCD(a, b) == IF b = 0 THEN a ELSE GCD(b, a % b)

Abs(x) == IF x < 0 THEN -x ELSE x

\* n/d in lowest terms, d # 0
Rat(n, d) ==
    LET g == GCD(Abs(n), Abs(d))
        s == IF d < 0 THEN -1 ELSE 1
    IN  [kind |-> "rat", num |-> s * (n \div g), den |-> s * (d \div g)]

Zero == Rat(0, 1)

IsNaN(v) == v.kind = "nan"

\* the IEEE-754 values a double field can hold, NaN included
IsDouble(v) ==
    v.kind \in {"nan", "inf", "rat", "dyadic", "shannon", "compression",
                "upper_tail", "quot_sqrt"}

\* The double nearest to a non-negative integer: 53 significant bits,
\* ties to the even mantissa.  Every conversion to double and every
\* product, quotient, sum or difference of doubles is rounded so; a
\* scaling by a power of two changes nothing in the rounding.
ToDouble(s) ==
    IF BitLen(s) <= 53 THEN s
    ELSE LET cut    == BitLen(s) - 53
             g      == cut - 1
             sticky == \/ s[(g \div 8) + 1] % 2^(g % 8) # 0
                       \/ \E j \in 1..(g \div 8) : s[j] # 0
             up     == BitOf(s, g) = 1 /\ (sticky \/ BitOf(s, cut) = 1)
             kept   == [j \in 1..Len(s) |->
                           IF j <= cut \div 8 THEN 0
                           ELSE IF j = (cut \div 8) + 1
                           THEN s[j] - (s[j] % 2^(cut % 8))
                           ELSE s[j]]
         IN  IF up THEN BigAdd(kept, Pow2(cut)) ELSE BigNorm(kept)

\* The double mant * 2^exp, in the form with an odd mantissa
RECURSIVE Dyadic(_, _, _)
Dyadic(neg, mant, exp) ==
    IF mant = <<>> THEN [kind |-> "dyadic", neg |-> FALSE, mant |-> <<>>,
                         exp |-> 0]
    ELSE IF mant[1] = 0 THEN Dyadic(neg, Tail(mant), exp + 8)
    ELSE IF mant[1] % 2 = 0 THEN Dyadic(neg, BigDiv(mant, 2).q, exp + 1)
    ELSE [kind |-> "dyadic", neg |-> neg, mant |-> mant, exp |-> exp]

\* x - n in double, for a double x >= 0 and an integer n >= 0
DyadicMinus(x, n) ==
    LET e  == IF x.exp < 0 THEN x.exp ELSE 0
        xm == BigMul(x.mant, Pow2(x.exp - e))
        nm == BigMul(BigFromNat(n), Pow2(-e))
    IN  Dyadic(BigLess(xm, nm), ToDouble(BigAbsDiff(xm, nm)), e)

\* a double holding an integer: sign and magnitude; 0.0 is not negative
Signed(neg, mag) == [neg |-> neg /\ mag # <<>>, mag |-> mag]

\* a - b in double, for doubles a, b >= 0
DoubleDiff(a, b) ==
    IF BigLess(a, b) THEN Signed(TRUE, ToDouble(BigSub(b, a)))
    ELSE Signed(FALSE, ToDouble(BigSub(a, b)))

\* a * b in double, for doubles a, b >= 0
DoubleProduct(a, b) == ToDouble(BigMul(a, b))

\* ------------------------------------------------------- case folding
\* <cctype> in the "C" locale: the program never calls setlocale
IsUpper(c) == c \in 65..90
IsAlpha(c) == c \in 65..90 \/ c \in 97..122
ToLower(c) == IF IsUpper(c) THEN c + 32 ELSE c

FoldByte(c) == IF IsAlpha(c) /\ IsUpper(c) THEN ToLower(c) ELSE c

FoldCase(d) == [i \in 1..Len(d) |-> FoldByte(d[i])]

\* data[i] with the code's 0-based index
At(d, i) == d[i + 1]

\* --------------------------------------------------- frequency tables
\* (byte >> bit) & 1
BitValue(byte, bit) == (byte \div (2^bit)) % 2

\* frequencies / observed, Byte mode: one counter per byte value
ByteOccurrences(d) ==
    [v \in 0..(BYTE_VAL_COUNT - 1) |->
        Cardinality({i \in 1..Len(d) : d[i] = v})]

\* frequencies / observed, Bit mode: bits 0..7 of every byte
BitOccurrences(d) ==
    [v \in 0..1 |->
        Cardinality({p \in (1..Len(d)) \X (0..7) : BitValue(d[p[1]], p[2]) = v})]

Occurrences(d, bits) == IF bits THEN BitOccurrences(d) ELSE ByteOccurrences(d)

\* number of samples: 8.0 * data.size() or data.size()
TotalSamples(d, bits) == IF bits THEN 8 * Len(d) ELSE Len(d)

\* ------------------------------------------------------------ entropy
\* k with 2^k = n, for n a power of two; -1 otherwise
RECURSIVE Log2Exact(_)
Log2Exact(n) ==
    IF n = 1 THEN 0
    ELSE IF n % 2 # 0 THEN -1
    ELSE LET k == Log2Exact(n \div 2) IN IF k < 0 THEN -1 ELSE k + 1

RECURSIVE SetMax(_)
SetMax(S) ==
    LET x == CHOOSE y \in S : TRUE
    IN  IF S = {x} THEN x
        ELSE LET m == SetMax(S \ {x}) IN IF x > m THEN x ELSE m

\* Sum over the bag of probabilities 1/2^k of mult * k * (D / 2^k), D the
\* largest denominator: the numerator of the entropy over D
RECURSIVE DyadicNum(_, _, _)
DyadicNum(probs, P, D) ==
    IF P = {} THEN 0
    ELSE LET p == CHOOSE q \in P : TRUE
         IN  probs[p] * Log2Exact(p.den) * (D \div p.den)
             + DyadicNum(probs, P \ {p}, D)

\* entropy -= frequency * log2(frequency) over the frequencies > 0.  A
\* frequency of exactly 1.0 subtracts 1.0 * 0.0; with no sample every
\* frequency is 0/0 = NaN and NaN > 0 is false, so entropy stays 0.0.
ShannonEntropy(freq, total) ==
    IF total = 0 THEN Zero
    ELSE
    LET live  == {v \in DOMAIN freq : freq[v] > 0 /\ freq[v] < total}
        P     == {Rat(freq[v], total) : v \in live}
        probs == [p \in P |->
                    Cardinality({v \in live : Rat(freq[v], total) = p})]
    IN  IF P = {} THEN Zero
        ELSE IF \A p \in P : p.num = 1 /\ Log2Exact(p.den) >= 0
        THEN LET D == SetMax({p.den : p \in P})
             IN  Rat(DyadicNum(probs, P, D), D)
        ELSE [kind |-> "shannon", probs |-> probs]

\* max_entropy: 1.0 bits per bit, 8.0 bits per byte
MaxEntropy(bits) == IF bits THEN 1 ELSE 8

\* a variant that stores the ratio kept instead of the ratio saved:
\* 100.0 * entropy / max_entropy
CompressionInverted(e, bits) ==
    IF e.kind = "rat"
    THEN Rat(100 * e.num, MaxEntropy(bits) * e.den)
    ELSE [kind |-> "compression", entropy |-> e, max |-> MaxEntropy(bits)]

\* compression = 100.0 * (1.0 - entropy / max_entropy)
Compression(e, bits) ==
    IF e.kind = "rat"
    THEN Rat(100 * (MaxEntropy(bits) * e.den - e.num), MaxEntropy(bits) * e.den)
    ELSE [kind |-> "compression", entropy |-> e, max |-> MaxEntropy(bits)]

calculate_entropy(d, bits) ==
    LET e == ShannonEntropy(Occurrences(d, bits), TotalSamples(d, bits))
    IN  [entropy |-> e, compression |-> Compression(e, bits)]

\* --------------------------------------------------------- chi-square
AlphabetSize(bits) == IF bits THEN 2 ELSE BYTE_VAL_COUNT

\* degree_of_freedom
DegreesOfFreedom(bits) == AlphabetSize(bits) - 1

\* expected is T/A with T the number of samples and A the alphabet size,
\* exactly: data.size() / 256.0 or 8.0 * data.size() / 2.0.  The terms
\* diff * diff / expected are kept as integers in units of
\* 2^-(TermShift + 1) / A.
TermShift(T) == 56 + BitLen(BigFromNat(T))

\* diff * diff / expected for the count o: diff = o - expected is exact,
\* the product is rounded, then the quotient
ChiTerm(o, A, T) ==
    LET d  == BigAbsDiff(BigMul(BigFromNat(A), BigFromNat(o)), BigFromNat(T))
        D  == ToDouble(BigMul(d, d))
    IN  IF D = <<>> THEN <<>>
        ELSE Only({ToDouble(BigAdd(BigAdd(r.q, r.q),
                                   IF r.rem # 0 THEN <<1>> ELSE <<>>)) :
                      r \in {BigDiv(BigMul(D, Pow2(TermShift(T))), T)}})

\* the term of every count that occurs
ChiTerms(observed, A, T) ==
    {<<o, ChiTerm(o, A, T)>> : o \in {observed[i] : i \in DOMAIN observed}}

TermOf(terms, o) == (CHOOSE t \in terms : t[1] = o)[2]

\* chisquare += diff * diff / expected for lo <= i < hi, in this order, each
\* sum rounded
RECURSIVE ChiLoop(_, _, _, _, _)
ChiLoop(observed, terms, lo, hi, acc) ==
    IF hi = lo THEN acc
    ELSE IF hi = lo + 1
    THEN ToDouble(BigAdd(acc, TermOf(terms, observed[lo])))
    ELSE Only({ChiLoop(observed, terms, (lo + hi) \div 2, hi, left) :
                  left \in {ChiLoop(observed, terms, lo, (lo + hi) \div 2,
                                    acc)}})

\* the loop over a table of counts
ChiSquareOf(observed, A, T) ==
    Only({Dyadic(FALSE, sum, 0 - (TermShift(T) + 1) - (BitLen(BigFromNat(A)) - 1)) :
             sum \in {Only({ChiLoop(observed, terms, 0, A, <<>>) :
                               terms \in {ChiTerms(observed, A, T)}})}})

\* with no sample expected is 0.0 and every term is 0*0/0 = NaN
ChiSquare(d, bits) ==
    IF TotalSamples(d, bits) = 0 THEN NaN
    ELSE Only({ChiSquareOf(observed, AlphabetSize(bits),
                           TotalSamples(d, bits)) :
                  observed \in {Occurrences(d, bits)}})

\* p_value = 1 - norm_cdf(sqrt(chisquare - degree_of_freedom)): sqrt of a
\* negative number is NaN, and NaN goes through erfc unchanged;
\* 1 - norm_cdf(0) is 0.5
PValue(chi, bits) ==
    IF chi.kind = "nan" THEN NaN
    ELSE Only({IF z2.mant = <<>> THEN Rat(1, 2)
               ELSE IF z2.neg THEN NaN
               ELSE [kind |-> "upper_tail", z2 |-> z2] :
                  z2 \in {DyadicMinus(chi, DegreesOfFreedom(bits))}})

calculate_chisquare(d, bits) ==
    Only({[chisquare |-> chi, p_value |-> PValue(chi, bits)] :
             chi \in {ChiSquare(d, bits)}})

\* --------------------------------------------------------------- mean
RECURSIVE Accumulate(_, _)
Accumulate(d, i) == IF i > Len(d) THEN 0 ELSE d[i] + Accumulate(d, i + 1)

\* mean = sum / data.size(): 0.0/0 is NaN
calculate_mean(d) ==
    IF Len(d) = 0 THEN NaN ELSE Rat(Accumulate(d, 1), Len(d))

\* ----------------------------------------------------- Monte Carlo pi
\* static_cast<unsigned long long>(data[i]) << 16 | data[i+1] << 8 | data[i+2]
Coordinate(d, i) == BigNorm(<<At(d, i + 2), At(d, i + 1), At(d, i)>>)

\* x * x + y * y in unsigned long long
DistanceSquared(x, y) ==
    ToU64(BigAdd(ToU64(BigMul(x, x)), ToU64(BigMul(y, y))))

\* data.size() - 5 is computed in size_t: below 5 bytes it wraps to a value
\* near 2^64 and the loop condition holds for every i the loop reaches
SizeMinus5Wraps(d) == Len(d) < 5

\* a variant whose groups overlap by one byte: i += 5
GroupStepOverlap == 6 - 1

\* the loop's step
GroupStep == 6

\* the indices one iteration reads: i, i+1, ..., i+5
GroupIndices(i) == [j \in 1..6 |-> i + j - 1]

PiStart == [hits |-> 0, groups |-> <<>>]

\* for (size_t i = 0; i < data.size() - 5; i += 6), for data.size() >= 5
RECURSIVE PiLoop(_, _, _)
PiLoop(d, i, st) ==
    IF ~(i < Len(d) - 5) THEN st
    ELSE LET x   == Coordinate(d, i)
             y   == Coordinate(d, i + 3)
             hit == BigLess(DistanceSquared(x, y), RadiusSquared)
         IN  PiLoop(d, i + GroupStep,
                    [hits   |-> st.hits + (IF hit THEN 1 ELSE 0),
                     groups |-> Append(st.groups, GroupIndices(i))])

\* pi_estimate = 4.0 * hits / total, total the number of iterations;
\* 4.0 * 0 / 0 is NaN
PiEstimate(st) ==
    IF Len(st.groups) = 0 THEN NaN ELSE Rat(4 * st.hits, Len(st.groups))

\* ------------------------------------------------- serial correlation
SumNames == {"sumX", "sumY", "sumXY", "sumX2", "sumY2"}

SumsStart ==
    [sumX |-> <<>>, sumY |-> <<>>, sumXY |-> <<>>, sumX2 |-> <<>>,
     sumY2 |-> <<>>, wrapped |-> {}]

\* the exact value of  sum += term  done `times` times
Accum(cur, term, times) ==
    IF times = 1 THEN BigAdd(cur, BigFromNat(term))
    ELSE BigAdd(cur, BigMul(BigFromNat(times), BigFromNat(term)))

\* the five sums after `times` iterations with the same X and Y, before
\* they are cut to 64 bits; X * Y, X * X and Y * Y are below 2^16
Added(acc, X, Y, times) ==
    [acc EXCEPT !.sumX  = Accum(@, X, times),
                !.sumY  = Accum(@, Y, times),
                !.sumXY = Accum(@, X * Y, times),
                !.sumX2 = Accum(@, X * X, times),
                !.sumY2 = Accum(@, Y * Y, times)]

\* unsigned long long keeps the low 64 bits; wrapped collects the
\* accumulators whose exact value left 64 bits
Stored(exact) ==
    [exact EXCEPT !.sumX  = ToU64(@),
                  !.sumY  = ToU64(@),
                  !.sumXY = ToU64(@),
                  !.sumX2 = ToU64(@),
                  !.sumY2 = ToU64(@),
                  !.wrapped = @ \cup {k \in SumNames : Wraps(exact[k])}]

\* `times` consecutive iterations of the loop body with the same X and Y
LoopBody(acc, X, Y, times) == Stored(Added(acc, X, Y, times))

\* for (size_t i = 1; i < data.size(); ++i)
RECURSIVE SerialLoop(_, _, _)
SerialLoop(d, i, acc) ==
    IF ~(i < Len(d)) THEN acc
    ELSE SerialLoop(d, i + 1, LoopBody(acc, At(d, i - 1), At(d, i), 1))

\* The same loop over a buffer given as runs [val, cnt] of equal bytes: the
\* first byte of a run pairs with the byte before it, each of the other
\* cnt - 1 bytes with an equal byte.  prev < 0: no byte yet.
RECURSIVE RunLoop(_, _, _, _)
RunLoop(rs, k, prev, acc) ==
    IF k > Len(rs) THEN acc
    ELSE LET v  == rs[k].val
             a1 == IF prev < 0 THEN acc ELSE LoopBody(acc, prev, v, 1)
             a2 == IF rs[k].cnt > 1 THEN LoopBody(a1, v, v, rs[k].cnt - 1)
                   ELSE a1
         IN  RunLoop(rs, k + 1, v, a2)

\* sumX * sumY, sumX * sumX, sumY * sumY: unsigned long long products,
\* formed before the conversion to double
Products(acc) ==
    LET exact == [prodXY |-> BigMul(acc.sumX, acc.sumY),
                  prodXX |-> BigMul(acc.sumX, acc.sumX),
                  prodYY |-> BigMul(acc.sumY, acc.sumY)]
    IN  [prodXY |-> ToU64(exact.prodXY),
         prodXX |-> ToU64(exact.prodXX),
         prodYY |-> ToU64(exact.prodYY),
         wrapped |-> {k \in {"prodXY", "prodXX", "prodYY"} : Wraps(exact[k])}]

\* what calculate_serial_correlation leaves in its locals
SerialTrace(acc) ==
    LET pr == Products(acc)
    IN  [sums |-> acc, products |-> pr,
         wrapped |-> acc.wrapped \cup pr.wrapped]

\* double n = data.size() - 1: the subtraction is done in size_t, so an
\* empty buffer gives 2^64 - 1, which converts to the double 2^64
SizeMinus1(len) ==
    IF len = 0 THEN BigShift(<<1>>, U64Limbs) ELSE BigFromNat(len - 1)

\* n * sum - product, each operand converted to double first
Moment(len, sum, product) ==
    DoubleDiff(DoubleProduct(SizeMinus1(len), ToDouble(sum)),
               ToDouble(product))

\* n * sumXY - sumX * sumY
Numerator(len, tr) == Moment(len, tr.sums.sumXY, tr.products.prodXY)

\* (n * sumX2 - sumX * sumX) * (n * sumY2 - sumY * sumY), as its two factors
Denominator(len, tr) ==
    <<Moment(len, tr.sums.sumX2, tr.products.prodXX),
      Moment(len, tr.sums.sumY2, tr.products.prodYY)>>

DenominatorIsZero(len, tr) ==
    Denominator(len, tr)[1].mag = <<>> \/ Denominator(len, tr)[2].mag = <<>>

\* numerator / std::sqrt(denominator): 0/0 and the square root of a
\* negative product are NaN, x/0 is an infinity
SerialCorrelation(len, tr) ==
    LET num == Numerator(len, tr)
        dx  == Denominator(len, tr)[1]
        dy  == Denominator(len, tr)[2]
    IN  IF dx.mag = <<>> \/ dy.mag = <<>>
        THEN (IF num.mag = <<>> THEN NaN
              ELSE [kind |-> "inf", sign |-> IF num.neg THEN -1 ELSE 1])
        ELSE IF dx.neg # dy.neg THEN NaN
        ELSE IF num.mag = <<>> THEN Zero
        ELSE [kind |-> "quot_sqrt", num |-> num, dx |-> dx, dy |-> dy]

\* ----------------------------------------------------------- printing
\* p_value < 0.0001.  For p_value = 1 - norm_cdf(sqrt(z2)) the comparison
\* of the doubles turns true between z2 = 13.831083619090282 and
\* z2 = 13.831083619090284; a comparison with NaN is false.
PValueCutNum ==
    BigAdd(BigMul(BigFromNat(13831083), BigFromNat(1000000000)),
           BigFromNat(619090283))

PValueCutDen == BigMul(BigFromNat(1000000), BigFromNat(1000000000))

PValueBelow(p) ==
    IF p.kind = "upper_tail"
    THEN BigLess(BigMul(PValueCutNum,
                        Pow2(IF p.z2.exp < 0 THEN 0 - p.z2.exp ELSE 0)),
                 BigMul(BigMul(p.z2.mant,
                               Pow2(IF p.z2.exp < 0 THEN 0 ELSE p.z2.exp)),
                        PValueCutDen))
    ELSE p.kind = "rat" /\ p.num * 10000 < p.den

\* p_value > 0.9999: never for z >= 0, where 1 - Phi(z) <= 0.5
PValueAbove(p) == p.kind = "rat" /\ p.num * 10000 > 9999 * p.den

\* which of the three sentences of print_result reports the p-value
ExceedLine(p) ==
    IF PValueBelow(p) THEN "less than 0.01 percent"
    ELSE IF PValueAbove(p) THEN "more than 99.99 percent"
    ELSE "percent"

\* serial_correlation >= -99999: false for NaN
SerialLine(sc) ==
    IF sc.kind = "nan" \/ (sc.kind = "inf" /\ sc.sign < 0)
    THEN "undefined" ELSE "value"

print_result(r) ==
    [fn |-> "print_result", exceed |-> ExceedLine(r.p_value),
     p_value |-> r.p_value, serial |-> SerialLine(r.serial_correlation)]

\* operator<< writes the seven fields as they are, "nan" for NaN
print_result_terse(r) ==
    [fn |-> "print_result_terse", serial |-> r.serial_correlation]

print_table == [fn |-> "print_table"]

print_table_terse == [fn |-> "print_table_terse"]

\* the print calls at the end of calculate(), in order
Printed(terse, result, table, r) ==
    IF terse
    THEN (IF result THEN <<print_result_terse(r)>> ELSE <<>>)
         \o (IF result /\ table THEN <<print_table_terse>> ELSE <<>>)
    ELSE (IF result /\ table THEN <<print_table>> ELSE <<>>)
         \o (IF result THEN <<print_result(r)>> ELSE <<>>)

\* -------------------------------------------------------------- state
VARIABLES
    data,               \* std::vector<unsigned char> data
    entropy, compression, chisquare, p_value, mean, pi_estimate,
    serial_correlation, \* the seven result fields
    streamOfBitsMode, printTableMode, foldCaseMode, terseMode,
    printResultMode,    \* the five flags
    stdout,             \* what the latest calculate() printed
    status,             \* "constructed", "calculated" (results are those of
                        \* the latest call, no setter called since),
                        \* "configured" (a setter was called since), or
                        \* "crashed" (the process faulted inside calculate())
    piTrace,            \* calculate_pi's locals in the latest call: hits,
                        \* the groups read, every index read, the fault
    serialTrace,        \* calculate_serial_correlation's locals likewise
    runs                \* a long buffer given as runs of equal bytes, for
                        \* the serial-correlation sums alone (SpecSums)

results ==
    <<entropy, compression, chisquare, p_value, mean, pi_estimate,
      serial_correlation>>

flags ==
    <<streamOfBitsMode, printTableMode, foldCaseMode, terseMode,
      printResultMode>>

vars == <<data, results, flags, stdout, status, piTrace, serialTrace, runs>>

\* ------------------------------------------------------------- inputs
\* The files loaded: every prefix, up to MaxLen bytes, of the endless
\* repetition of one of these patterns.
Patterns ==
    { <<0>>, <<255>>, <<15>>, <<65>>, <<1, 1, 1, 1, 1, 2>>, <<65, 97, 90, 48>>,
      <<255, 255, 255, 255, 255, 255, 255, 255, 255, 0, 0, 0>>,
      <<181, 4, 244, 181, 4, 244, 181, 4, 243, 181, 4, 243, 9>> }

Cycle(p, n) == [i \in 1..n |-> p[((i - 1) % Len(p)) + 1]]

Buffers == {Cycle(p, n) : p \in Patterns, n \in 0..MaxLen}

NoPiTrace ==
    [hits |-> 0, groups |-> <<>>, reads |-> {}, more |-> FALSE,
     fault |-> FALSE]

NoSerialTrace == SerialTrace(SumsStart)

\* Ent(const std::string &filePath) and Ent(): the buffer is loaded, the
\* results are 0.0, printResultMode is true and the other flags false
Init ==
    /\ data \in Buffers
    /\ entropy = Zero /\ compression = Zero /\ chisquare = Zero
    /\ p_value = Zero /\ mean = Zero /\ pi_estimate = Zero
    /\ serial_correlation = Zero
    /\ streamOfBitsMode = FALSE /\ printTableMode = FALSE
    /\ foldCaseMode = FALSE /\ terseMode = FALSE /\ printResultMode = TRUE
    /\ stdout = <<>>
    /\ status = "constructed"
    /\ piTrace = NoPiTrace
    /\ serialTrace = NoSerialTrace
    /\ runs = <<>>

\* ---------------------------------------------------------- calculate
\* the buffer after the fold-case loop at the head of calculate()
Folded(d, fold) == IF fold THEN FoldCase(d) ELSE d

\* a variant whose statistics read the buffer as it was before the fold
MeasuredStale(d, fold) == d

\* the buffer the five statistics read
Measured(d, fold) == Folded(d, fold)

\* the indices read by the groups of a pi trace
RangeOf(groups) ==
    UNION {{groups[k][j] : j \in 1..Len(groups[k])} : k \in 1..Len(groups)}

\* a variant whose mean follows the sampling mode: in Bit mode the mean of
\* the bits
FirstThreeBitMean(d, bits) ==
    LET en == calculate_entropy(d, bits)
        ch == calculate_chisquare(d, bits)
    IN  [entropy |-> en.entropy, compression |-> en.compression,
         chisquare |-> ch.chisquare, p_value |-> ch.p_value,
         mean |-> IF bits /\ Len(d) > 0
                  THEN Rat(BitOccurrences(d)[1], 8 * Len(d))
                  ELSE calculate_mean(d)]

\* The buffers calculate() can meet: those loaded and their folded forms.
Measurable == Buffers \cup {FoldCase(d) : d \in Buffers}

\* calculate_chisquare() on each of them in Byte mode, where its loop has
\* 256 rounds: worked out once
ByteChiSquares ==
    {<<d, calculate_chisquare(d, FALSE)>> : d \in Measurable}

\* entropy, compression, chi-square, p-value and mean of the buffer d:
\* calculate_entropy(); calculate_chisquare(); calculate_mean();
FirstThree(d, bits) ==
    LET en == calculate_entropy(d, bits)
        ch == IF ~bits /\ d \in Measurable
              THEN (CHOOSE t \in ByteChiSquares : t[1] = d)[2]
              ELSE calculate_chisquare(d, bits)
    IN  [entropy |-> en.entropy, compression |-> en.compression,
         chisquare |-> ch.chisquare, p_value |-> ch.p_value,
         mean |-> calculate_mean(d)]

\* calculate_pi(); calculate_serial_correlation(); on at least 5 bytes
LastTwo(d) ==
    LET pi == PiLoop(d, 0, PiStart)
        tr == SerialTrace(SerialLoop(d, 1, SumsStart))
    IN  [pi_estimate |-> PiEstimate(pi),
         serial_correlation |-> SerialCorrelation(Len(d), tr),
         piTrace |-> [hits |-> pi.hits, groups |-> pi.groups,
                      reads |-> RangeOf(pi.groups), more |-> FALSE,
                      fault |-> FALSE],
         serialTrace |-> tr]

\* calculate() on a buffer of at least 5 bytes: fold, the five statistics
\* in order, then the prints
CalculateReturns ==
    /\ ~SizeMinus5Wraps(data)
    /\ \E a \in {FirstThree(Measured(data, foldCaseMode), streamOfBitsMode)} :
       \E b \in {LastTwo(Measured(data, foldCaseMode))} :
           /\ data' = Folded(data, foldCaseMode)
           /\ entropy' = a.entropy
           /\ compression' = a.compression
           /\ chisquare' = a.chisquare
           /\ p_value' = a.p_value
           /\ mean' = a.mean
           /\ pi_estimate' = b.pi_estimate
           /\ serial_correlation' = b.serial_correlation
           /\ piTrace' = b.piTrace
           /\ serialTrace' = b.serialTrace
           /\ stdout' = Printed(terseMode, printResultMode, printTableMode,
                                [p_value |-> a.p_value,
                                 serial_correlation |-> b.serial_correlation])
           /\ status' = "calculated"
    /\ UNCHANGED <<flags, runs>>

\* How many whole groups calculate_pi reads before it faults on a buffer
\* of fewer than 5 bytes.  An empty vector holds a null pointer and the
\* first read faults.  Otherwise the reads run into whatever memory lies
\* behind the allocation, for as long as it is mapped: any number of
\* groups.  The trace keeps the first MaxOobGroups of them and says in
\* `more` whether further groups were read after these.
OobOutcomes(d) ==
    IF Len(d) = 0 THEN {[groups |-> 0, more |-> FALSE]}
    ELSE {[groups |-> g, more |-> FALSE] : g \in 0..MaxOobGroups}
         \cup {[groups |-> MaxOobGroups, more |-> TRUE]}

\* calculate() on a buffer of fewer than 5 bytes.  Entropy, chi-square and
\* mean are stored; then calculate_pi's loop bound has wrapped and the loop
\* reads data[i] past the end of the vector, which is undefined: it reads
\* whole groups of whatever lies behind the buffer, each a hit or not, and
\* then touches memory that is not mapped.  The process dies with the pi
\* estimate and the serial correlation never stored and nothing printed.
\* piTrace holds the groups the trace keeps, the hits among them and the
\* indices read for them, up to the first index of the group after them.
CalculateFaults ==
    /\ SizeMinus5Wraps(data)
    /\ \E a \in {FirstThree(Measured(data, foldCaseMode), streamOfBitsMode)} :
       \E o \in OobOutcomes(data) : \E h \in 0..o.groups :
            /\ data' = Folded(data, foldCaseMode)
            /\ entropy' = a.entropy
            /\ compression' = a.compression
            /\ chisquare' = a.chisquare
            /\ p_value' = a.p_value
            /\ mean' = a.mean
            /\ piTrace' = [hits |-> h,
                           groups |-> [k \in 1..o.groups |->
                                          GroupIndices(GroupStep * (k - 1))],
                           reads |-> 0..(IF o.groups = 0 THEN Len(data)
                                         ELSE GroupStep * o.groups),
                           more |-> o.more,
                           fault |-> TRUE]
            /\ status' = "crashed"
    /\ UNCHANGED <<pi_estimate, serial_correlation, serialTrace, stdout,
                   flags, runs>>

Calculate ==
    /\ status # "crashed"
    /\ (CalculateReturns \/ CalculateFaults)

\* ------------------------------------------------------------ setters
AfterSetter == IF status = "calculated" THEN "configured" ELSE status

setStreamOfBitsMode ==
    /\ status # "crashed"
    /\ \E mode \in BOOLEAN : streamOfBitsMode' = mode
    /\ status' = AfterSetter
    /\ UNCHANGED <<data, results, printTableMode, foldCaseMode, terseMode,
                   printResultMode, stdout, piTrace, serialTrace, runs>>

setPrintTableMode ==
    /\ status # "crashed"
    /\ \E mode \in BOOLEAN : printTableMode' = mode
    /\ status' = AfterSetter
    /\ UNCHANGED <<data, results, streamOfBitsMode, foldCaseMode, terseMode,
                   printResultMode, stdout, piTrace, serialTrace, runs>>

setFoldCaseMode ==
    /\ status # "crashed"
    /\ \E mode \in BOOLEAN : foldCaseMode' = mode
    /\ status' = AfterSetter
    /\ UNCHANGED <<data, results, streamOfBitsMode, printTableMode, terseMode,
                   printResultMode, stdout, piTrace, serialTrace, runs>>

setTerseMode ==
    /\ status # "crashed"
    /\ \E mode \in BOOLEAN : terseMode' = mode
    /\ status' = AfterSetter
    /\ UNCHANGED <<data, results, streamOfBitsMode, printTableMode,
                   foldCaseMode, printResultMode, stdout, piTrace,
                   serialTrace, runs>>

setPrintResultMode ==
    /\ status # "crashed"
    /\ \E mode \in BOOLEAN : printResultMode' = mode
    /\ status' = AfterSetter
    /\ UNCHANGED <<data, results, streamOfBitsMode, printTableMode,
                   foldCaseMode, terseMode, stdout, piTrace, serialTrace,
                   runs>>

\* double get_serial_correlation() { return serial_correlation; }
get_serial_correlation == serial_correlation

Next ==
    \/ Calculate
    \/ setStreamOfBitsMode
    \/ setPrintTableMode
    \/ setFoldCaseMode
    \/ setTerseMode
    \/ setPrintResultMode

Spec == Init /\ [][Next]_vars

\* ------------------------------------------- the sums on long buffers
\* calculate_serial_correlation alone, on buffers too long to write out:
\* one or two runs of equal bytes, up to the 20,000,000 bytes of "tens of
\* millions".
LongestBuffer == 20 * 1000 * 1000

RunValues == {0, 1, 128, 255}

RunCounts ==
    {1, 2, 1000, 16843009, 16843010, 16843011, LongestBuffer - 2,
     LongestBuffer - 1, LongestBuffer}

Run == [val : RunValues, cnt : RunCounts]

RunsLength(rs) ==
    IF Len(rs) = 1 THEN rs[1].cnt ELSE rs[1].cnt + rs[2].cnt

RunInputs ==
    {rs \in {<<r>> : r \in Run} \cup {<<r, q>> : r \in Run, q \in Run} :
        /\ RunsLength(rs) <= LongestBuffer
        /\ (Len(rs) = 2 => rs[1].val # rs[2].val)}

InitSums ==
    /\ data = <<>>
    /\ entropy = Zero /\ compression = Zero /\ chisquare = Zero
    /\ p_value = Zero /\ mean = Zero /\ pi_estimate = Zero
    /\ serial_correlation = Zero
    /\ streamOfBitsMode = FALSE /\ printTableMode = FALSE
    /\ foldCaseMode = FALSE /\ terseMode = FALSE /\ printResultMode = TRUE
    /\ stdout = <<>>
    /\ status = "constructed"
    /\ piTrace = NoPiTrace
    /\ serialTrace = NoSerialTrace
    /\ runs \in RunInputs

\* calculate_serial_correlation() on the buffer the runs stand for: the
\* loop, the three products, and the store of the field
SumRuns ==
    /\ status = "constructed"
    /\ \E tr \in {SerialTrace(RunLoop(runs, 1, -1, SumsStart))} :
          /\ serialTrace' = tr
          /\ serial_correlation' = SerialCorrelation(RunsLength(runs), tr)
    /\ status' = "summed"
    /\ UNCHANGED <<data, entropy, compression, chisquare, p_value, mean,
                   pi_estimate, flags, stdout, piTrace, runs>>

NextSums == SumRuns

SpecSums == InitSums /\ [][NextSums]_vars

\* ------------------------------------------------------------- claims
\* calculate() has returned at least once: the results are those of a call
Returned == status \in {"calculated", "configured"}

\* calculate() has stored entropy, chi-square and mean at least once
Stored3 == status \in {"calculated", "configured", "crashed"}

AllSame(d) == \A i \in 1..Len(d) : d[i] = d[1]

\* x*x + y*y < 2^48 for the 24-bit coordinates packed from b[1..3] and
\* b[4..6], computed on 12-bit halves
InQuarterCircle(b) ==
    LET x  == b[1] * 65536 + b[2] * 256 + b[3]
        y  == b[4] * 65536 + b[5] * 256 + b[6]
        xh == x \div 4096
        xl == x % 4096
        yh == y \div 4096
        yl == y % 4096
        H  == xh * xh + yh * yh
        M  == 2 * (xh * xl + yh * yl)
        L  == xl * xl + yl * yl
        lo == (M % 4096) * 4096 + L
    IN  H + (M \div 4096) + (lo \div 16777216) < 16777216

RECURSIVE SumOfBytes(_)
SumOfBytes(d) == IF d = <<>> THEN 0 ELSE Head(d) + SumOfBytes(Tail(d))

\* C1: after calculate() on a buffer of N >= 6 bytes, calculate_pi has read
\* exactly floor(N/6) groups, group k being the indices 6k..6k+5 in order,
\* every index read is below N, none of the trailing N mod 6 indices is
\* read, the hits are the groups inside the quarter circle, and the stored
\* estimate is 4 * hits / floor(N/6).
C1_PiGroups ==
    (Returned /\ Len(data) >= 6) =>
        LET N == Len(data)
            G == N \div 6
        IN  /\ Len(piTrace.groups) = G
            /\ \A k \in 0..(G - 1) :
                  piTrace.groups[k + 1] =
                      <<6*k, 6*k + 1, 6*k + 2, 6*k + 3, 6*k + 4, 6*k + 5>>
            /\ \A i \in piTrace.reads : i < N
            /\ piTrace.reads \cap ((6 * G)..(N - 1)) = {}
            /\ ~piTrace.fault
            /\ piTrace.hits =
                  Cardinality({k \in 0..(G - 1) :
                      InQuarterCircle([j \in 1..6 |-> data[6*k + j]])})
            /\ pi_estimate.kind = "rat"
            /\ pi_estimate.num * G = 4 * piTrace.hits * pi_estimate.den

\* C1 witness: a 13-byte buffer measured: two groups, one of them a hit, the
\* thirteenth byte left over.
C1_Witness ==
    /\ status = "calculated"
    /\ Len(data) = 13
    /\ Len(piTrace.groups) = 2
    /\ piTrace.hits = 1
    /\ 12 \notin piTrace.reads
    /\ pi_estimate = Rat(2, 1)

\* C2 (as claimed): calculate() on a buffer of fewer than 6 bytes is
\* rejected up front with a reported error: it never faults, the pi loop
\* reads no group and no index at or past the length, and no 0/0 is stored
\* as mean, chi-square or pi estimate.  The class has no outcome
\* "rejected": calculate() returns void, throws nothing and sets no error.
C2_ShortBufferRejected ==
    (Len(data) < 6 /\ status # "constructed") =>
        /\ status = "rejected"
        /\ piTrace.groups = <<>>
        /\ \A i \in piTrace.reads : i < Len(data)
        /\ ~IsNaN(mean) /\ ~IsNaN(chisquare) /\ ~IsNaN(pi_estimate)

\* C3 (as claimed): after calculate() on a buffer of identical bytes, what
\* get_serial_correlation() returns is an explicit "undefined" outcome, not
\* one of the values of the double field.
C3_UndefinedIsExplicit ==
    (Returned /\ AllSame(data)) => ~IsDouble(get_serial_correlation)

\* chisquare < degree_of_freedom for the mode of the latest call
ChiBelowDf ==
    /\ chisquare.kind = "dyadic"
    /\ DyadicMinus(chisquare, DegreesOfFreedom(streamOfBitsMode)).neg

\* C4 (as claimed): in both modes, when the chi-square statistic of the
\* latest call is below its degrees of freedom, the p-value is a detectable
\* "invalid tail" outcome: not a value of the double field, and not printed
\* as "would exceed this value ... percent of the times".
C4_InvalidTailDetectable ==
    (status = "calculated" /\ ChiBelowDf) =>
        /\ ~IsDouble(p_value)
        /\ \A k \in 1..Len(stdout) :
              stdout[k].fn = "print_result" => stdout[k].exceed # "percent"

\* a step of calculate(): the setters never lead to these
CalculateStep == status' \in {"calculated", "crashed"} /\ status # "crashed"

\* C5 (as claimed): no step changes the byte buffer, whatever the flags:
\* the buffer after calculate() is byte for byte the buffer before it.
\* calculate() with fold-case on writes data[i] = tolower(data[i]).
C5_BufferNeverMutated == [][data' = data]_vars

\* C6: calculate() called again with no setter call in between leaves all
\* seven result fields as the first call left them.
C6_Idempotent ==
    [][(status = "calculated" /\ CalculateStep) => results' = results]_vars

\* C6 witness: a first call has returned with fold-case on and has folded
\* the buffer; the second call starts here.
C6_Witness ==
    /\ status = "calculated"
    /\ foldCaseMode
    /\ streamOfBitsMode
    /\ Len(data) >= 6
    /\ \E i \in 1..Len(data) : data[i] = 122

\* C7: every call of calculate() stores as mean the sum of the raw bytes
\* over their number, in either mode; and a call on a buffer an earlier
\* call has measured, in whatever mode either ran, stores the same mean, pi
\* estimate and serial correlation again.
C7_ModeInvariant ==
    [][CalculateStep =>
          /\ (Len(data') > 0 =>
                 /\ mean'.kind = "rat"
                 /\ mean'.num * Len(data') = mean'.den * SumOfBytes(data'))
          /\ (Returned /\ data' = data /\ status' = "calculated" =>
                 /\ mean' = mean
                 /\ pi_estimate' = pi_estimate
                 /\ serial_correlation' = serial_correlation)]_vars

\* C7 witness: six bytes 0x0F measured in Bit mode: the entropy is the bit
\* stream's 1.0 (0.0 in Byte mode), the mean is still the byte mean 15.
C7_Witness ==
    /\ status = "calculated"
    /\ streamOfBitsMode
    /\ data = <<15, 15, 15, 15, 15, 15>>
    /\ entropy = Rat(1, 1)
    /\ mean = Rat(15, 1)
    /\ pi_estimate = Rat(4, 1)

\* C8 (as claimed): after calculate() on N >= 1 identical bytes, in either
\* mode, entropy is 0.0 and compression is 100.
C8_ConstantBufferZeroEntropy ==
    (Stored3 /\ Len(data) >= 1 /\ AllSame(data)) =>
        /\ entropy = Zero
        /\ compression = Rat(100, 1)

\* C8 (amended): after calculate() on N >= 1 identical bytes, entropy is 0.0
\* and compression is 100 in Byte mode, and in Bit mode when the byte is
\* 0x00 or 0xFF: the frequency table then has one non-zero count.  In Bit
\* mode on any other byte value the table has two non-zero counts and the
\* entropy is not 0.0.
C8_ConstantBuffer ==
    (status \in {"calculated", "crashed"} /\ Len(data) >= 1 /\ AllSame(data)) =>
        LET nonzero == {v \in DOMAIN Occurrences(data, streamOfBitsMode) :
                           Occurrences(data, streamOfBitsMode)[v] > 0}
        IN  IF ~streamOfBitsMode \/ data[1] \in {0, 255}
            THEN /\ entropy = Zero
                 /\ compression = Rat(100, 1)
                 /\ Cardinality(nonzero) = 1
            ELSE /\ entropy # Zero
                 /\ compression # Rat(100, 1)
                 /\ Cardinality(nonzero) = 2

\* C8 witness: seven bytes 0xFF measured in Bit mode.
C8_Witness ==
    /\ status = "calculated"
    /\ streamOfBitsMode
    /\ data = <<255, 255, 255, 255, 255, 255, 255>>
    /\ entropy = Zero
    /\ compression = Rat(100, 1)

\* C9 (as claimed): on a buffer of at least 2 bytes the denominator of the
\* serial correlation is zero exactly when all bytes are identical, and a
\* buffer with two distinct byte values gets a number.
C9_DenominatorZeroIffConstant ==
    (Returned /\ Len(data) >= 2) =>
        /\ DenominatorIsZero(Len(data), serialTrace) <=> AllSame(data)
        /\ ~AllSame(data) => ~IsNaN(serial_correlation)

\* C10 (as claimed): on every buffer of up to 20,000,000 bytes none of the
\* five accumulators and none of the three integer products wraps.
C10_NoWrap == serialTrace.wrapped = {}

====
